---- MODULE Spec2Model ----
(***************************************************************************)
(* GeoDataKit.geoplot.RoseDiagram as a state machine.                      *)
(*                                                                         *)
(* State: one RoseDiagram object (rose), the heap of pandas DataFrame      *)
(* objects the caller owns (frames; RoseDiagram.data is a reference into   *)
(* it, and set_data mutates the referenced frame in place), the exception  *)
(* raised by the latest call (raised), the latest call itself (call) and   *)
(* the axes the latest call created (ax: show assigns self.fig and self.ax *)
(* anew on every call and no method reads them, so they are kept for the   *)
(* call that created them only).                                           *)
(* twin is a second run of the same call sequence in which the verbose     *)
(* flag given to the constructor is negated; it has its own heap.          *)
(*                                                                         *)
(* Numbers are fixed point: the integer n stands for n / Scale.            *)
(***************************************************************************)
EXTENDS Integers, Sequences, FiniteSets, TLC

VARIABLES rose, frames, ax, raised, call, twin

vars == <<rose, frames, ax, raised, call, twin>>

\* ------------------------------------------------------------------ bounds
\* Most rows a generated DataFrame has.
MaxRows == 2

\* ------------------------------------------------------------ Python values
\* Fixed-point resolution of a float: n stands for n / Scale.
Scale == 10000
\* numpy.pi as the fraction PiNum / PiDen.
PiNum == 355
PiDen == 113

NoneV == "<None>"
\* an attribute that was never assigned (reading it raises AttributeError)
Unset == "<unset>"
\* a present dataset that is no pandas.DataFrame (a list, an array)
AList == "<list>"
\* no exception
NoError == ""

\* a numeric cell holding the number d, and a text cell
Num(d) == [num |-> TRUE, val |-> d * Scale, txt |-> ""]
Txt(s) == [num |-> FALSE, val |-> 0, txt |-> s]

\* isinstance(v, numbers.Number)
IsNumber(v) == v.num

\* numpy.deg2rad(x) = x * (pi / 180)
Deg2RadIdentity(x) == x
Deg2Rad(x) == (x * PiNum) \div (PiDen * 180)

\* 2 * numpy.pi
TwoPi == (2 * PiNum * Scale) \div PiDen

\* get_kargs(name, default, **kargs): the keyword argument, or the default
get_kargs(name, default, kargs) ==
    IF name \in DOMAIN kargs THEN kargs[name] ELSE default

NoArgs == [x \in {} |-> 0]

\* -------------------------------------------------------------- DataFrames
\* A DataFrame is the sequence of its columns, in column order; a column is
\* [name, cells], every column with one cell per row.
NRows(t) == IF Len(t) = 0 THEN 0 ELSE Len(t[1].cells)

\* DataFrame.empty: no column or no row
empty(t) == Len(t) = 0 \/ NRows(t) = 0

HasColumn(t, name) == \E i \in 1..Len(t) : t[i].name = name

ColumnIndex(t, name) == CHOOSE i \in 1..Len(t) : t[i].name = name

\* data[name]
Column(t, name) == t[ColumnIndex(t, name)].cells

\* data[name] = cells: overwrite the column of that name, or append a new one
SetColumn(t, name, cells) ==
    IF HasColumn(t, name)
    THEN [t EXCEPT ![ColumnIndex(t, name)].cells = cells]
    ELSE Append(t, [name |-> name, cells |-> cells])

\* every value of the column is a number
IsNumericColumn(cells) == \A r \in 1..Len(cells) : IsNumber(cells[r])

\* isinstance(data[col].iloc[0], numbers.Number)
FirstValueIsNumber(col) == IsNumber(col.cells[1])

\* [col for col in data.columns if isinstance(data[col].iloc[0], numbers.Number)]
RECURSIVE NumberColumnsFrom(_, _)
NumberColumnsFrom(t, i) ==
    IF i > Len(t) THEN <<>>
    ELSE (IF FirstValueIsNumber(t[i]) THEN <<t[i].name>> ELSE <<>>)
         \o NumberColumnsFrom(t, i + 1)

number_columns(t) == NumberColumnsFrom(t, 1)

\* numpy.deg2rad(data[name]) on a column of numbers
Deg2RadColumn(cells) ==
    [r \in 1..Len(cells) |-> [cells[r] EXCEPT !.val = Deg2Rad(@)]]

\* ------------------------------------------------------------- RoseDiagram
NoHist == [invoked |-> FALSE]

\* no figure yet: self.fig and self.ax were never assigned
NoAx == [created |-> FALSE, thetagrids |-> FALSE, hist |-> NoHist,
         labelled |-> FALSE, rgrids_angle |-> 0, ylabel |-> "",
         labelpad |-> 0, xlabel |-> ""]

\* no object
NoRose == [exists |-> FALSE, verbose |-> FALSE, bin_width_rad |-> 0,
           data |-> Unset, direction_label |-> Unset,
           category_label |-> Unset, direction_label_rad |-> Unset]

\* the outcome of a call: the object, the heap, the axes created and the
\* exception raised
Drawn(self, df, axes, exc) ==
    [self |-> self, frames |-> df, ax |-> axes, raised |-> exc]

Outcome(self, df, exc) == Drawn(self, df, NoAx, exc)

\* the DataFrame objects of the heap
FrameIds == {"f1", "f2"}

isinstance_DataFrame(data) == data \in FrameIds

\* line 203: the direction column is the first column of numbers
ResolveDirection(named, nc) == nc[1]

\* lines 209-211
RadLabel(direction_label, degrees) ==
    IF degrees /\ direction_label # NoneV
    THEN direction_label \o "_rad" ELSE direction_label

\* RoseDiagram.set_data(self, data, **kargs)
set_data(self, df, data, kargs) ==
    IF data = NoneV
    THEN IF self.verbose /\ self.data = Unset
         THEN Outcome(self, df, "AttributeError")
         ELSE Outcome([self EXCEPT !.data = NoneV], df, NoError)
    ELSE IF ~isinstance_DataFrame(data)
    THEN \* the assertion's message, "..." + type(data), cannot be built
         Outcome(self, df, "TypeError")
    ELSE
    LET s1 == [self EXCEPT !.data = data,
                           !.direction_label =
                               get_kargs("direction_label", NoneV, kargs)]
        nc == number_columns(df[data])
    IN  IF empty(df[data]) THEN Outcome(s1, df, "AssertionError")
        ELSE IF Len(nc) = 0 THEN Outcome(s1, df, "AssertionError")
        ELSE
        LET dl == ResolveDirection(s1.direction_label, nc)
            degrees == get_kargs("degrees", TRUE, kargs)
            dlr == RadLabel(dl, degrees)
            s2 == [s1 EXCEPT !.direction_label = dl,
                             !.category_label =
                                 get_kargs("category_label", NoneV, kargs),
                             !.direction_label_rad = dlr]
        IN  IF ~degrees THEN Outcome(s2, df, NoError)
            ELSE IF ~IsNumericColumn(Column(df[data], dl))
            THEN \* numpy.deg2rad of a column holding a non-number
                 Outcome(s2, df, "TypeError")
            ELSE Outcome(s2,
                         [df EXCEPT ![data] =
                             SetColumn(@, dlr, Deg2RadColumn(Column(@, dl)))],
                         NoError)

\* line 158
BinWidthRadUnconverted(bin_width, degrees) == bin_width
BinWidthRad(bin_width, degrees) ==
    IF degrees THEN Deg2Rad(bin_width) ELSE bin_width

\* RoseDiagram.__init__(self, data=None, **kargs)
RoseDiagram_init(df, data, kargs) ==
    LET s0 == [NoRose EXCEPT
                 !.exists = TRUE,
                 !.verbose = get_kargs("verbose", FALSE, kargs),
                 !.bin_width_rad =
                     BinWidthRad(get_kargs("bin_width", 10 * Scale, kargs),
                                 get_kargs("degrees", TRUE, kargs))]
    IN  set_data(s0, df, data, kargs)

\* --------------------------------------------------------- the renderers
\* matplotlib's Text.set_text: None is shown as the empty text
SetText(s) == IF s = NoneV THEN "" ELSE s

\* the label seaborn.histplot gives the axis of the statistic
StatLabel(stat) ==
    CASE stat = "count" -> "Count"
      [] stat = "density" -> "Density"
      [] stat = "percent" -> "Percent"
      [] OTHER -> stat

\* line 319: binrange= [-self.bin_width_rad/2.0, 2*np.pi]
BinRangeFromZero(bin_width_rad) == <<0, TwoPi>>
BinRangeFullWidth(bin_width_rad) == <<-bin_width_rad, TwoPi>>
BinRange(bin_width_rad) == <<-(bin_width_rad \div 2), TwoPi>>

\* seaborn's bin edges, numpy.arange(start, stop + step, step): how many
NumEdges(binwidth, binrange) ==
    (binrange[2] + binwidth - binrange[1] + binwidth - 1) \div binwidth

\* the i-th bin edge, counted from 0
BinEdge(i, binwidth, binrange) == binrange[1] + i * binwidth

\* numpy.histogram: the bin of v (the last bin is closed), -1 outside the edges
BinOf(v, binwidth, binrange) ==
    LET last == NumEdges(binwidth, binrange) - 1
    IN  IF v < binrange[1] \/ v > BinEdge(last, binwidth, binrange) THEN -1
        ELSE IF v = BinEdge(last, binwidth, binrange) THEN last - 1
        ELSE (v - binrange[1]) \div binwidth

\* the series of a histogram without hue
AllRows == Txt("<all>")

\* statistic "count": per hue level and bin, the number of rows in the bin
Counts(t, x, hue, binwidth, binrange) ==
    LET rows == 1..NRows(t)
        xs == Column(t, x)
        bin == [r \in rows |-> BinOf(xs[r].val, binwidth, binrange)]
        level == IF hue = NoneV THEN [r \in rows |-> AllRows] ELSE Column(t, hue)
    IN  [l \in {level[r] : r \in rows} |->
            [b \in 0..(NumEdges(binwidth, binrange) - 2) |->
                Cardinality({r \in rows : level[r] = l /\ bin[r] = b})]]

\* what seaborn.histplot is handed, lines 318-328, and what it answers:
\* an unknown column is a ValueError, a value that is no number a TypeError
histplot(t, x, hue, binwidth, binrange, stat, multiple) ==
    LET handed == [invoked |-> TRUE, x |-> x, hue |-> hue,
                   binwidth |-> binwidth, binrange |-> binrange,
                   stat |-> stat, multiple |-> multiple]
        error == IF ~HasColumn(t, x) \/ (hue # NoneV /\ ~HasColumn(t, hue))
                 THEN "ValueError"
                 ELSE IF ~IsNumericColumn(Column(t, x)) THEN "TypeError"
                 ELSE NoError
    IN  handed @@ [error |-> error,
                   counts |-> IF error = NoError
                              THEN Counts(t, x, hue, binwidth, binrange)
                              ELSE NoArgs]

\* lines 332-337: the radial grid and the axis labels
ApplyLabels(axes, y_axis_label, y_axis_label_padding, x_axis_label, y_axis_angle) ==
    LET a1 == [axes EXCEPT !.rgrids_angle = y_axis_angle]
        a2 == IF y_axis_label # "default"
              THEN [a1 EXCEPT !.ylabel = SetText(y_axis_label)] ELSE a1
    IN  [a2 EXCEPT !.ylabel = SetText(a2.ylabel),
                   !.labelpad = y_axis_label_padding,
                   !.xlabel = SetText(x_axis_label),
                   !.labelled = TRUE]

\* lines 287-295: a new figure and polar axes with the angular grid
NewPolarAxes == [NoAx EXCEPT !.created = TRUE, !.thetagrids = TRUE]

\* RoseDiagram.show(self, **kargs)
show(self, df, kargs) ==
    IF self.direction_label = Unset
    THEN \* line 303 reads self.direction_label for the default
         Drawn(self, df, NewPolarAxes, "AttributeError")
    ELSE
    LET stat_type == get_kargs("stat_type", "count", kargs)
        interaction == get_kargs("category_interaction", "layer", kargs)
        multiple == IF interaction = "proportion" THEN "fill" ELSE interaction
        x_axis_label == get_kargs("x_axis_label", self.direction_label, kargs)
        y_axis_label == get_kargs("y_axis_label", "default", kargs)
        y_axis_label_padding == get_kargs("y_axis_label_padding", 20, kargs)
        y_axis_angle == get_kargs("y_axis_angle", 0, kargs)
        h == histplot(df[self.data], self.direction_label_rad,
                      self.category_label, self.bin_width_rad,
                      BinRange(self.bin_width_rad), stat_type, multiple)
    IN  IF self.data = Unset THEN Drawn(self, df, NewPolarAxes, "AttributeError")
        ELSE IF self.data = NoneV
        THEN Drawn(self, df,
                   ApplyLabels(NewPolarAxes, y_axis_label, y_axis_label_padding,
                               x_axis_label, y_axis_angle),
                   NoError)
        ELSE IF self.direction_label_rad = Unset \/ self.category_label = Unset
        THEN Drawn(self, df, NewPolarAxes, "AttributeError")
        ELSE IF h.error # NoError
        THEN Drawn(self, df, [NewPolarAxes EXCEPT !.hist = h], h.error)
        ELSE Drawn(self, df,
                   ApplyLabels([NewPolarAxes EXCEPT !.hist = h,
                                                    !.ylabel = StatLabel(stat_type)],
                               y_axis_label, y_axis_label_padding, x_axis_label,
                               y_axis_angle),
                   NoError)

\* ------------------------------------------------------------------ inputs
\* the values a generated DataFrame holds
Cells == {Num(90), Txt("N")}

\* the column names of a generated DataFrame, in column order
ColNames == <<"az", "cat">>

\* the DataFrames of c columns and r rows: the first column holds any values,
\* a second column one value in every row
TablesOf(c, r) ==
    {[i \in 1..c |-> [name |-> ColNames[i],
                      cells |-> IF i = 1 THEN m ELSE [j \in 1..r |-> v]]] :
        m \in [1..r -> Cells], v \in Cells}

Tables == UNION {TablesOf(c, r) : c \in 0..Len(ColNames), r \in 0..MaxRows}

\* two DataFrames set_data refuses: one without rows, one without numbers
InvalidTables == {<<[name |-> "az", cells |-> <<>>]>>,
                  <<[name |-> "az", cells |-> <<Txt("N")>>]>>}

\* the data argument of a call
DataArgs == {NoneV, AList} \cup FrameIds

Arg(name, value) == name :> value

CtorArgs ==
    {NoArgs,
     Arg("verbose", TRUE),
     Arg("bin_width", 20 * Scale) @@ Arg("degrees", FALSE),
     Arg("direction_label", "cat"),
     Arg("category_label", "cat")}

SetArgs ==
    {NoArgs,
     Arg("degrees", FALSE) @@ Arg("bin_width", 30 * Scale),
     Arg("direction_label", "cat"),
     Arg("category_label", "cat")}

ShowArgs ==
    {NoArgs,
     Arg("y_axis_label", ""),
     Arg("y_axis_label", NoneV),
     Arg("y_axis_label", "default"),
     Arg("y_axis_label", "Rate") @@ Arg("y_axis_label_padding", 30)
         @@ Arg("x_axis_label", "Azimuth") @@ Arg("y_axis_angle", 45),
     Arg("stat_type", "density") @@ Arg("category_interaction", "proportion")
         @@ Arg("bin_width", 30 * Scale) @@ Arg("degrees", FALSE)}

\* dataset["orientation"]["strike_deg"], in degrees
strike_deg ==
    <<
       106, 108, 111,  95,  92, 110, 100,  97, 110, 106, 114,  89,  92, 108,  90,
       103, 110,  97, 107, 106, 104, 103,  86, 108, 107, 106,  96, 112, 114,  88,
        95,  93, 100,  98, 114,  88, 110, 103,  89, 101,  95, 111, 108, 110, 109,
        90,  98,  93, 115, 108, 334, 340, 322, 329, 328, 336, 312, 339, 332, 312,
       310, 345, 334, 325, 300, 330, 325, 326, 303, 349, 333, 313, 339, 342, 322,
       325, 346, 347, 347, 319, 339, 307, 297, 349, 327, 319, 320, 309, 308, 305,
       323, 291, 306, 347, 297, 313, 333, 293, 305, 346, 350, 299, 340, 295, 342,
       327, 329, 295, 346, 311, 345, 328, 336, 346, 336, 318, 308, 336, 346, 306,
       301, 320, 326, 303, 302, 291, 332, 305, 325, 294, 311, 316, 312, 321, 321,
       343, 343, 300, 312, 316, 318, 304, 312, 348, 318, 332, 309, 306, 291, 335,
       318, 333, 314, 327, 342, 334, 339, 315, 327, 300, 296, 336, 311, 300, 329,
       321, 327, 304, 339, 335, 318, 346, 318, 314, 302, 297, 306, 299, 320, 300,
       346, 309, 297, 315, 303, 346, 332, 344, 303, 340, 298, 338, 327, 304, 296,
       320, 350, 329, 300, 349, 170, 157, 132, 137,   1, 328, 224, 145, 172,  53,
       296, 175, 127, 250, 358, 233, 212, 150, 119, 142, 304, 106, 139,  11, 163,
       326, 282, 158, 332, 261,  40, 165, 242, 278, 346, 167,  98, 324, 262, 129,
       273,  90,  42, 155,  27, 241, 257, 207, 314,  83, 250, 232, 310, 318,  50,
        94, 297, 314,  96, 278, 117, 334, 108, 238,  45,  44, 243, 171,  44, 147,
       185, 192, 344, 275, 109, 338, 126, 279, 225, 342, 115, 289, 147, 131, 180,
        12, 326, 293,   3, 291, 122,   2, 254, 286,  74,  16,  69, 116, 196,  47
    >>

\* dataset["orientation"]["category"]: 50 rows Cat1, 150 rows Cat2, 100 rows Rand
category ==
    [i \in 1..Len(strike_deg) |->
        IF i <= 50 THEN "Cat1" ELSE IF i <= 200 THEN "Cat2" ELSE "Rand"]

\* dataset["orientation"]
orientation ==
    <<[name |-> "strike_deg",
       cells |-> [i \in 1..Len(strike_deg) |-> Num(strike_deg[i])]],
      [name |-> "category",
       cells |-> [i \in 1..Len(category) |-> Txt(category[i])]]>>

\* widest bin, in degrees, the orientation dataset is drawn with
MaxBinWidth == 60

\* the keyword arguments rose_diagram is called with on dataset["orientation"]
ScriptArgs ==
    {Arg("category_label", "category") @@ Arg("bin_width", w * Scale)
         @@ Arg("stat_type", st) :
        w \in 1..MaxBinWidth, st \in {"count", "density"}}

\* the same keyword arguments with the verbose flag negated
FlipVerbose(kargs) ==
    Arg("verbose", ~get_kargs("verbose", FALSE, kargs)) @@ kargs

\* ----------------------------------------------------------------- actions
\* one run: the object, the heap, the axes and the exception of the last call
Run(r) == [rose |-> r.self, frames |-> r.frames, ax |-> r.ax, raised |-> r.raised]

\* a constructor that raises leaves no object
Constructed(r) == IF r.raised = NoError THEN Run(r) ELSE [Run(r) EXCEPT !.rose = NoRose]

Init ==
    /\ rose = NoRose
    /\ frames \in {[f \in FrameIds |-> IF f = "f1" THEN a ELSE b] :
                      a \in Tables, b \in InvalidTables}
    /\ ax = NoAx
    /\ raised = NoError
    /\ call = [op |-> "none", data |-> NoneV, kargs |-> NoArgs]
    /\ twin = [rose |-> NoRose, frames |-> frames, ax |-> NoAx, raised |-> NoError]

\* the run of the model's own variables becomes r, the twin run t
Step(run, twinRun, c) ==
    \E r \in {run}, t \in {twinRun} :
    /\ rose' = r.rose
    /\ frames' = r.frames
    /\ ax' = r.ax
    /\ raised' = r.raised
    /\ call' = c
    /\ twin' = t

\* rose = RoseDiagram(data, **kargs), the program's first call; the twin run
\* constructs with the verbose flag negated
Construct ==
    /\ call.op = "none"
    /\ \E data \in DataArgs, kargs \in CtorArgs :
        Step(Constructed(RoseDiagram_init(frames, data, kargs)),
             Constructed(RoseDiagram_init(twin.frames, data, FlipVerbose(kargs))),
             [op |-> "init", data |-> data, kargs |-> kargs])

\* rose.set_data(data, **kargs)
SetData ==
    /\ rose.exists
    /\ \E data \in DataArgs, kargs \in SetArgs :
        Step(Run(set_data(rose, frames, data, kargs)),
             IF twin.rose.exists
             THEN Run(set_data(twin.rose, twin.frames, data, kargs)) ELSE twin,
             [op |-> "set_data", data |-> data, kargs |-> kargs])

\* rose.show(**kargs)
Show ==
    /\ rose.exists
    /\ \E kargs \in ShowArgs :
        Step(Run(show(rose, frames, kargs)),
             IF twin.rose.exists
             THEN Run(show(twin.rose, twin.frames, kargs)) ELSE twin,
             [op |-> "show", data |-> NoneV, kargs |-> kargs])

Next == Construct \/ SetData \/ Show

Spec == Init /\ [][Next]_vars

\* -------------------------------------------- the script on the bundled data
\* rose_diagram(data, **kargs): the constructor, then show, with the same
\* keyword arguments; an exception of the constructor ends the call
rose_diagram(df, data, kargs) ==
    LET r == RoseDiagram_init(df, data, kargs)
    IN  IF r.raised # NoError THEN r ELSE show(r.self, r.frames, kargs)

InitOrientation ==
    /\ rose = NoRose
    /\ frames = [f \in FrameIds |->
                    IF f = "f1" THEN orientation
                    ELSE <<[name |-> "az", cells |-> <<>>]>>]
    /\ ax = NoAx
    /\ raised = NoError
    /\ call = [op |-> "none", data |-> NoneV, kargs |-> NoArgs]
    /\ twin = [rose |-> NoRose, frames |-> frames, ax |-> NoAx, raised |-> NoError]

\* rose = rose_diagram(dataset["orientation"], **kargs)
RoseDiagramScript ==
    /\ call.op = "none"
    /\ \E kargs \in ScriptArgs :
        Step(Constructed(rose_diagram(frames, "f1", kargs)),
             Constructed(rose_diagram(twin.frames, "f1", FlipVerbose(kargs))),
             [op |-> "rose_diagram", data |-> "f1", kargs |-> kargs])

NextOrientation == RoseDiagramScript

SpecOrientation == InitOrientation /\ [][NextOrientation]_vars

\* ------------------------------------------------------------------ claims
\* the latest call was the constructor or set_data
SetsData == call.op \in {"init", "set_data"}

\* the validation failure of set_data: a failed assert
InvalidInput == "AssertionError"

\* C1: the constructor and set_data, given no dataset (None), raise nothing
\* and leave the object with no dataset, whatever the other options are.
C1_NoDatasetNeverRaises ==
    (SetsData /\ call.data = NoneV) =>
        (raised = NoError /\ rose.exists /\ rose.data = NoneV)

\* C2: show() on an object without dataset raises nothing, does not call the
\* histogram renderer, and produces axes with the polar grid and the labels.
C2_ShowWithoutDataset ==
    (call.op = "show" /\ rose.data = NoneV) =>
        (/\ raised = NoError
         /\ ~ax.hist.invoked
         /\ ax.created /\ ax.thetagrids /\ ax.labelled)

\* the first column, in column order, whose values are all numbers
FirstNumericColumn(t) ==
    LET numeric == {i \in 1..Len(t) : IsNumericColumn(t[i].cells)}
    IN  t[CHOOSE i \in numeric : \A j \in numeric : i <= j].name

HasNumericColumn(t) == \E i \in 1..Len(t) : IsNumericColumn(t[i].cells)

\* no column mixes numbers with other values
Homogeneous(t) ==
    \A i \in 1..Len(t) :
        \/ IsNumericColumn(t[i].cells)
        \/ \A r \in 1..Len(t[i].cells) : ~IsNumber(t[i].cells[r])

\* C3: after a successful set_data with a DataFrame, the direction column is
\* the one the caller named (here: a numeric column of the dataset); if none
\* was named, it is the first column whose values are numbers (here: of a
\* dataset no column of which mixes numbers with other values).
C3_DirectionResolution ==
    (SetsData /\ call.data \in FrameIds /\ raised = NoError) =>
        IF "direction_label" \in DOMAIN call.kargs
        THEN (/\ HasColumn(frames[call.data], call.kargs.direction_label)
              /\ IsNumericColumn(Column(frames[call.data],
                                        call.kargs.direction_label)))
                 => rose.direction_label = call.kargs.direction_label
        ELSE Homogeneous(frames[call.data]) =>
                 /\ HasNumericColumn(frames[call.data])
                 /\ rose.direction_label = FirstNumericColumn(frames[call.data])

\* C4: set_data (and the constructor) with a DataFrame that has no rows, or
\* that has rows but no numeric column, fails (as claimed: with InvalidInput;
\* the formula asks only that the call raises).
C4_InvalidDatasetRaises ==
    (/\ SetsData /\ call.data \in FrameIds
     /\ \/ empty(frames[call.data])
        \/ ~HasNumericColumn(frames[call.data])) =>
        raised # NoError

\* C5: set_data with a dataset that is present but no DataFrame fails with
\* InvalidInput, the failure an empty dataset gives.
C5_NotADataFrameRaises ==
    (SetsData /\ call.data = AList) => raised = InvalidInput

\* what the claim C6 compares of an object: every attribute but verbose
BuilderState(r) ==
    [exists |-> r.exists, data |-> r.data,
     direction_label |-> r.direction_label,
     category_label |-> r.category_label,
     direction_label_rad |-> r.direction_label_rad,
     bin_width_rad |-> r.bin_width_rad]

\* C6: the run with the verbose flag negated raises at the same calls and
\* ends in the same object state, heap and renderer invocation.
C6_VerboseOnlyNarration ==
    /\ raised = twin.raised
    /\ BuilderState(rose) = BuilderState(twin.rose)
    /\ frames = twin.frames
    /\ ax = twin.ax

\* w is v degrees in radians, to the resolution of the numbers
IsRadiansOf(w, v) == w = (v * PiNum) \div (PiDen * 180)

\* column rad of t holds, row by row, column dl converted to radians
IsRadColumnOf(t, rad, dl) ==
    /\ HasColumn(t, rad) /\ HasColumn(t, dl)
    /\ \A r \in 1..NRows(t) :
          /\ Column(t, dl)[r].num /\ Column(t, rad)[r].num
          /\ IsRadiansOf(Column(t, rad)[r].val, Column(t, dl)[r].val)

\* a step that is a successful set_data (or constructor) with a DataFrame
SetDataSucceeds ==
    /\ call'.op \in {"init", "set_data"}
    /\ call'.data \in FrameIds
    /\ raised' = NoError

\* the radians case of C7: the attribute names the direction column, and the
\* heap is as it was
RadiansCase ==
    /\ rose'.direction_label_rad = rose'.direction_label
    /\ frames' = frames

\* C7 as claimed: with degrees, a successful set_data adds exactly one column,
\* <direction>_rad, holding the direction column in radians, and the
\* attribute names it; with radians it names the direction column and the
\* dataset is unchanged.
C7_ExactlyOneAdditionalColumn ==
    [][SetDataSucceeds =>
        LET old == frames[call'.data]
            new == frames'[call'.data]
            dl == rose'.direction_label
        IN  IF get_kargs("degrees", TRUE, call'.kargs)
            THEN /\ rose'.direction_label_rad = dl \o "_rad"
                 /\ Len(new) = Len(old) + 1
                 /\ SubSeq(new, 1, Len(old)) = old
                 /\ new[Len(new)].name = dl \o "_rad"
                 /\ IsRadColumnOf(new, dl \o "_rad", dl)
            ELSE RadiansCase]_vars

\* C7 amended: with degrees, a successful set_data leaves in the dataset a
\* column <direction>_rad holding the direction column in radians (appended
\* as one more column if the dataset had none of that name, overwritten in
\* place if it had), changes no other column or dataset, and the attribute
\* names that column; with radians as claimed.
C7_RadianColumn ==
    [][SetDataSucceeds =>
        LET old == frames[call'.data]
            new == frames'[call'.data]
            dl == rose'.direction_label
        IN  IF get_kargs("degrees", TRUE, call'.kargs)
            THEN /\ rose'.direction_label_rad = dl \o "_rad"
                 /\ Len(new) = Len(old)
                        + (IF HasColumn(old, dl \o "_rad") THEN 0 ELSE 1)
                 /\ \A i \in 1..Len(old) :
                        /\ new[i].name = old[i].name
                        /\ old[i].name # dl \o "_rad" => new[i] = old[i]
                 /\ IsRadColumnOf(new, dl \o "_rad", dl)
                 /\ \A f \in FrameIds \ {call'.data} : frames'[f] = frames[f]
            ELSE RadiansCase]_vars

\* a successful set_data in degrees whose dataset holds the radian column
C7_Witness ==
    /\ call.op = "set_data" /\ call.data \in FrameIds /\ raised = NoError
    /\ get_kargs("degrees", TRUE, call.kargs)
    /\ rose.direction_label_rad = rose.direction_label \o "_rad"
    /\ IsRadColumnOf(frames[call.data], rose.direction_label_rad,
                     rose.direction_label)

\* C8: for a positive bin width w, the renderer is handed w and a bin range
\* that starts at -w/2, so the first bin is [-w/2, w/2), centred on zero, and
\* the value 0 degrees falls in it.
C8_BinRangeAnchored ==
    (ax.hist.invoked /\ rose.bin_width_rad > 0) =>
        LET w == rose.bin_width_rad
            lo == ax.hist.binrange[1]
        IN  /\ ax.hist.binwidth = w
            /\ 2 * lo \in {-w, 1 - w}
            /\ BinEdge(0, ax.hist.binwidth, ax.hist.binrange) = lo
            /\ BinEdge(1, ax.hist.binwidth, ax.hist.binrange) = lo + w
            /\ lo <= Deg2Rad(0) /\ Deg2Rad(0) < lo + w
            /\ BinOf(Deg2Rad(0), ax.hist.binwidth, ax.hist.binrange) = 0

\* the histogram of the bundled dataset was drawn with an odd and a wide bin
C8_Witness ==
    /\ call.op = "rose_diagram" /\ raised = NoError
    /\ ax.hist.invoked /\ ax.hist.error = NoError
    /\ rose.bin_width_rad = Deg2Rad(45 * Scale)
    /\ rose.bin_width_rad % 2 = 1

\* the bin of the drawn histogram a direction of d degrees falls in
DrawnBinOf(d) ==
    BinOf(Deg2Rad(d * Scale), ax.hist.binwidth, ax.hist.binrange)

\* bin b of the drawn histogram is the bin of lo to hi degrees, to the degree:
\* the whole degrees between lo and hi fall in it, those beyond do not
IsDegreeBin(b, lo, hi) ==
    /\ \A d \in (lo + 1)..(hi - 1) : DrawnBinOf(d) = b
    /\ DrawnBinOf(lo - 1) # b
    /\ DrawnBinOf(hi + 1) # b

\* bin b holds more rows of the category than any other bin
IsTallest(b, cat) ==
    LET c == ax.hist.counts[Txt(cat)]
    IN  /\ b \in DOMAIN c
        /\ \A o \in DOMAIN c \ {b} : c[o] < c[b]

\* the bundled dataset was drawn by category with 20 degree bins, counted
OrientationDrawn ==
    /\ call.op = "rose_diagram" /\ raised = NoError
    /\ call.kargs.bin_width = 20 * Scale
    /\ call.kargs.stat_type = "count"
    /\ ax.hist.invoked /\ ax.hist.error = NoError
    /\ ax.hist.hue = "category"

\* C9: of the bundled orientation dataset drawn by category with 20 degree
\* bins, the tallest Cat1 bar is the bin of 90 to 110 degrees and the tallest
\* Cat2 bar the bin of 310 to 330 degrees.
C9_OrientationPeaks ==
    OrientationDrawn =>
        \E b1, b2 \in 0..(NumEdges(ax.hist.binwidth, ax.hist.binrange) - 2) :
            /\ IsDegreeBin(b1, 90, 110) /\ IsTallest(b1, "Cat1")
            /\ IsDegreeBin(b2, 310, 330) /\ IsTallest(b2, "Cat2")

C9_Witness ==
    /\ OrientationDrawn
    /\ \E b \in DOMAIN ax.hist.counts[Txt("Cat1")] :
          ax.hist.counts[Txt("Cat1")][b] > 0

\* C10: after show(), the radial label is the renderer's label of the
\* statistic if no y_axis_label was passed, and the value passed otherwise
\* (None shown as no text); the padding (default 20) is applied.
C10_RadialLabel ==
    (call.op = "show" /\ raised = NoError) =>
        /\ ax.ylabel =
              IF "y_axis_label" \in DOMAIN call.kargs
              THEN SetText(call.kargs.y_axis_label)
              ELSE IF ax.hist.invoked
                   THEN StatLabel(get_kargs("stat_type", "count", call.kargs))
                   ELSE ""
        /\ ax.labelpad = get_kargs("y_axis_label_padding", 20, call.kargs)

\* the bin width the constructor's keyword arguments stand for: bin_width
\* (default 10), in radians if the degrees flag (default true) says degrees
IsConstructionBinWidth(w, kargs) ==
    LET bin_width == get_kargs("bin_width", 10 * Scale, kargs)
    IN  IF get_kargs("degrees", TRUE, kargs)
        THEN IsRadiansOf(w, bin_width) ELSE w = bin_width

\* C11: the bin width of the object is, after construction, the constructor's
\* bin_width (default 10) converted to radians if and only if the constructor's
\* degrees flag was true; no set_data or show call changes it, whatever
\* degrees or bin_width it is given; and it is the bin width show hands to
\* the histogram renderer.
C11_BinWidthFixedAtConstruction ==
    [][/\ (call'.op = "init" /\ rose'.exists) =>
              IsConstructionBinWidth(rose'.bin_width_rad, call'.kargs)
       /\ call'.op \in {"set_data", "show"} =>
              rose'.bin_width_rad = rose.bin_width_rad
       /\ (call'.op = "show" /\ ax'.hist.invoked) =>
              ax'.hist.binwidth = rose.bin_width_rad]_vars

\* show, given bin_width 30 and degrees false, has handed the renderer the
\* constructor's default of 10 degrees, in radians
C11_Witness ==
    /\ call.op = "show"
    /\ "bin_width" \in DOMAIN call.kargs /\ "degrees" \in DOMAIN call.kargs
    /\ ax.hist.invoked
    /\ ax.hist.binwidth # call.kargs["bin_width"]
    /\ IsRadiansOf(ax.hist.binwidth, 10 * Scale)
    /\ rose.bin_width_rad = ax.hist.binwidth

\* the object holds a valid dataset: a DataFrame with rows and a column of
\* numbers, resolved by a set_data that succeeded
HoldsValidDataset ==
    /\ rose.exists /\ rose.data \in FrameIds
    /\ ~empty(frames[rose.data])
    /\ Len(number_columns(frames[rose.data])) > 0
    /\ rose.direction_label \notin {Unset, NoneV}
    /\ rose.direction_label_rad # Unset
    /\ HasColumn(frames[rose.data], rose.direction_label)
    /\ HasColumn(frames[rose.data], rose.direction_label_rad)

\* C12: a set_data that fails validation (its dataset is empty or has no
\* column of numbers) on an object holding a valid dataset leaves the
\* object's dataset, direction label, category label and radian column name
\* as they were before the call.
C12_FailedSetDataKeepsBuilder ==
    [][(/\ HoldsValidDataset
        /\ call'.op = "set_data" /\ call'.data \in FrameIds
        /\ raised' = InvalidInput)
       => BuilderState(rose') = BuilderState(rose)]_vars

====
